---- MODULE Spec2Model ----
(***************************************************************************)
(* sasctl.pzmm.git_integration: synchronisation of model artifacts between *)
(* SAS Model Manager (reached through ModelRepository, "mr") and a local   *)
(* git working tree <git_path>/<project_name>/<model_name>/.               *)
(*                                                                         *)
(* The program is synchronous and single threaded, so every public call is *)
(* one action that runs the whole function, its helper calls included.     *)
(* ModelRepository and sasctl.core are not part of the sources at hand;    *)
(* the operators that stand for them follow the interface description of   *)
(* the specification (section 6) and are marked as such.                   *)
(***************************************************************************)
EXTENDS Integers, Sequences, FiniteSets, TLC

VARIABLES
    projects,    \* remote projects: set of [id, name]
    models,      \* remote models: set of [id, name, projectName, files]
    nextId,      \* number of the next model id the service hands out
    projDirs,    \* names p such that <git_path>/p/ exists
    modelDirs,   \* <<p, m>> |-> files of <git_path>/p/m/ (name |-> content)
    pushedFrom,  \* history: id of an imported model that still exists |-> the
                 \* files its directory held when push_git_model was called
                 \* (the bytes of the *.zip among them left out)
    last         \* history: the last call, its arguments and how it ended

vars == <<projects, models, nextId, projDirs, modelDirs, pushedFrom, last>>

(***************************************************************************)
(* Bounds and input universes                                              *)
(***************************************************************************)
\* Number of imports (mr.import_model_from_zip) a behaviour may perform.
MaxImports == 1

\* Python's None.
NONE == "<None>"

\* Project names (remote and local directory names).
ProjectNames == {"A", "B"}

\* Model names. "name" is also a key of the model's RestObj.
ModelNames == {"m", "name"}

\* What the user writes into the working copy: directory, file, content.
UserWrites ==
    {<<"A", "m", "a.txt", "c2">>, <<"A", "m", "b.zip", "c1">>}

\* All file names, in the order sorted() gives them.
FileOrder == <<"a.txt", "b.zip", "c.txt", "m.zip", "name.zip">>

\* Ids of the models the repository holds initially.
InitialModelIds == <<"u1", "u2", "u3">>

\* Ids the service gives to imported models, in order.
ImportedModelIds == <<"u4", "u5", "u6", "u7">>

ModelId(n) == ImportedModelIds[n]

\* The id the service gives to a project of that name.
ProjectId(name) == "p" \o name

\* Strings uuid.UUID() accepts: the ids above, and two ids of nothing.
UUIDStrings ==
    {InitialModelIds[i] : i \in DOMAIN InitialModelIds}
        \cup {ImportedModelIds[i] : i \in DOMAIN ImportedModelIds}
        \cup {ProjectId(p) : p \in ProjectNames}
        \cup {"u0", "p0"}

\* References a caller passes for a model and for a project.
ModelRefs == ModelNames \cup {"u0", "u1", "u4"}
ProjectRefs == ProjectNames \cup {"p0"}

(***************************************************************************)
(* Values                                                                  *)
(***************************************************************************)
Data(c) == [data |-> c]

EmptyDir == [f \in {} |-> Data(NONE)]

NoDir == <<NONE, NONE>>

NoProject == [id |-> NONE, name |-> NONE]

NoModel == [id |-> NONE, name |-> NONE, projectName |-> NONE, files |-> EmptyDir]

\* UUID(x) succeeds / is_uuid(x).
IsUUID(ref) == ref \in UUIDStrings

\* The keys of a model's RestObj that the code reads, in iteration order.
RestObjKeys == <<"id", "name", "projectName">>

(***************************************************************************)
(* Files and archives                                                      *)
(***************************************************************************)
\* Path.glob("*.zip") matches the names that end in ".zip".
IsZip(f) == Len(f) >= 4 /\ SubSeq(f, Len(f) - 3, Len(f)) = ".zip"

ZipName(model_name) == model_name \o ".zip"

\* Faulty variant of UnlinkZips: glob("*") in place of glob("*.zip").
UnlinkEverything(dir) == [f \in {} |-> dir[f]]

\* for zip_file in dir.glob("*.zip"): zip_file.unlink()
UnlinkZips(dir) == [f \in {g \in DOMAIN dir : ~IsZip(g)} |-> dir[f]]

\* sorted(Path(model_dir).glob("*"))
SortedGlob(dir) == SelectSeq(FileOrder, LAMBDA f : f \in DOMAIN dir)

\* Faulty variant of ZipWrite: the loop starts at the second file.
ZipWriteSkipsFirst(dir) ==
    LET file_names == Tail(SortedGlob(dir) \o <<"">>)
    IN  [entries |-> [i \in 1..(Len(file_names) - 1) |->
                          [name |-> file_names[i], bytes |-> dir[file_names[i]]]]]

\* zipfile.ZipFile(mode="w"); for file in file_names: write(file, arcname=file.name)
ZipWrite(dir) ==
    LET file_names == SortedGlob(dir)
    IN  [entries |-> [i \in 1..Len(file_names) |->
                          [name |-> file_names[i], bytes |-> dir[file_names[i]]]]]

\* ZipFile.extractall(dir): every entry is written under its name, in order.
ExtractAll(zip, dir) ==
    LET n == Len(zip.entries)
        names == {zip.entries[i].name : i \in 1..n}
        lastOf(f) == CHOOSE i \in 1..n :
                        /\ zip.entries[i].name = f
                        /\ \A j \in 1..n : zip.entries[j].name = f => j <= i
    IN  [f \in DOMAIN dir \cup names |->
            IF f \in names THEN zip.entries[lastOf(f)].bytes ELSE dir[f]]

(***************************************************************************)
(* The local tree                                                          *)
(***************************************************************************)
Exists(fs, path) ==
    IF Len(path) = 1 THEN path[1] \in fs.projDirs ELSE path \in DOMAIN fs.modelDirs

\* Path.mkdir(parents=True, exist_ok=True)
Mkdir(fs, path) ==
    IF Len(path) = 1
    THEN [fs EXCEPT !.projDirs = @ \cup {path[1]}]
    ELSE [projDirs |-> fs.projDirs \cup {path[1]},
          modelDirs |-> IF path \in DOMAIN fs.modelDirs
                        THEN fs.modelDirs
                        ELSE [d \in DOMAIN fs.modelDirs \cup {path} |->
                                 IF d = path THEN EmptyDir ELSE fs.modelDirs[d]]]

\* open(dir / name, "wb").write(bytes)
WriteFile(fs, path, name, bytes) ==
    [fs EXCEPT !.modelDirs[path] =
        [f \in DOMAIN @ \cup {name} |-> IF f = name THEN bytes ELSE @[f]]]

SetDir(fs, path, dir) == [fs EXCEPT !.modelDirs[path] = dir]

(***************************************************************************)
(* ModelRepository (from the interface description of the specification)   *)
(***************************************************************************)
\* mr.get_project(ref): by name or by id; None when there is none.
GetProject(ps, ref) ==
    IF \E p \in ps : p.name = ref \/ p.id = ref
    THEN CHOOSE p \in ps : p.name = ref \/ p.id = ref
    ELSE NoProject

\* mr.create_project(name, repository)
CreateProject(name) == [id |-> ProjectId(name), name |-> name]

\* mr.get_model(id); None when there is none.
GetModel(ms, ref) ==
    IF \E mo \in ms : mo.id = ref
    THEN CHOOSE mo \in ms : mo.id = ref
    ELSE NoModel

\* mr.delete_model(id)
DeleteModel(ms, id) == {mo \in ms : mo.id # id}

\* The service lists models in the order it created them.
AllModelIds == InitialModelIds \o ImportedModelIds

SeqOfModels(S) ==
    LET ids == SelectSeq(AllModelIds, LAMBDA id : \E mo \in S : mo.id = id)
    IN  [i \in 1..Len(ids) |-> CHOOSE mo \in S : mo.id = ids[i]]

\* mr.get("/projects/{id}/models"): the project's models; a collection of one
\* item may come back as the item itself (collapse) instead of a list.
ProjectModels(ms, ps, project_id, collapse) ==
    LET pname == GetProject(ps, project_id).name
        items == SeqOfModels({mo \in ms : mo.projectName = pname})
    IN  [single |-> collapse /\ Len(items) = 1, items |-> items]

\* mr.get("models/{id}", params={"format": "zip"}, format_="content")
ModelZip(mo) == ZipWrite(mo.files)

\* mr.import_model_from_zip(name, project, file): the new model holds the
\* archive's entries.
ImportedModel(id, name, project_name, zip) ==
    [id |-> id, name |-> name, projectName |-> project_name,
     files |-> ExtractAll(zip, EmptyDir)]

(***************************************************************************)
(* git_integration.py                                                      *)
(***************************************************************************)
Fs(pd, md) == [projDirs |-> pd, modelDirs |-> md]

\* get_zipped_model(model, git_path, project) for a model given by its id:
\* downloads the archive and writes it to <project>/<model>/<model>.zip.
GetZippedModel(ms, fs, model) ==
    LET mo == GetModel(ms, model)
        project_name == mo.projectName
        model_name == mo.name
        path == <<project_name, model_name>>
        model_zip == ModelZip(mo)
    IN  IF mo = NoModel
        THEN [err |-> "AttributeError", fs |-> fs, dir |-> NoDir]
        ELSE IF Exists(fs, <<project_name>>)
        THEN IF Exists(fs, path)
             THEN [err |-> "ok", dir |-> path,
                   fs |-> WriteFile(fs, path, ZipName(model_name), model_zip)]
             ELSE [err |-> "ok", dir |-> path,
                   fs |-> WriteFile(Mkdir(fs, path), path, ZipName(model_name), model_zip)]
        ELSE [err |-> "ok", dir |-> path,
              fs |-> WriteFile(Mkdir(Mkdir(fs, <<project_name>>), path),
                               path, ZipName(model_name), model_zip)]

\* Faulty variant of ProjectExists: no test of the reference being a UUID.
ProjectExistsAlwaysCreates(ps, response, project) ==
    IF response = NoProject
    THEN [err |-> "ok", projects |-> ps \cup {CreateProject(project)},
          project |-> CreateProject(project)]
    ELSE [err |-> "ok", projects |-> ps, project |-> response]

\* project_exists(response, project)
ProjectExists(ps, response, project) ==
    IF response = NoProject
    THEN IF IsUUID(project)
         THEN [err |-> "SystemError", projects |-> ps, project |-> NoProject]
         ELSE [err |-> "ok", projects |-> ps \cup {CreateProject(project)},
               project |-> CreateProject(project)]
    ELSE [err |-> "ok", projects |-> ps, project |-> response]

\* What the loop "for model in project_models" of model_exists visits: the
\* models of a list; for a single RestObj its keys, and for each key the
\* TypeError handler looks at the object itself.
Visits(response) ==
    IF response.single
    THEN [k \in 1..Len(RestObjKeys) |-> response.items[1]]
    ELSE response.items

\* Faulty variant of ModelExistsLoop: the loop ends at the first model of the name.
RECURSIVE ModelExistsLoopBreaks(_, _, _, _, _)
ModelExistsLoopBreaks(visits, i, name, force, acc) ==
    IF i > Len(visits) THEN acc
    ELSE IF visits[i].name = name
         THEN IF force
              THEN [acc EXCEPT !.models = DeleteModel(@, visits[i].id),
                               !.deletes = Append(@, visits[i].id)]
              ELSE [acc EXCEPT !.err = "ValueError"]
         ELSE ModelExistsLoopBreaks(visits, i + 1, name, force, acc)

RECURSIVE ModelExistsLoop(_, _, _, _, _)
ModelExistsLoop(visits, i, name, force, acc) ==
    IF i > Len(visits) THEN acc
    ELSE IF visits[i].name = name
         THEN IF force
              THEN ModelExistsLoop(visits, i + 1, name, force,
                       [acc EXCEPT !.models = DeleteModel(@, visits[i].id),
                                   !.deletes = Append(@, visits[i].id)])
              ELSE [acc EXCEPT !.err = "ValueError"]
         ELSE ModelExistsLoop(visits, i + 1, name, force, acc)

\* model_exists(project, name, force)
ModelExists(ms, ps, project, name, force, collapse) ==
    LET pr == GetProject(ps, project)
    IN  IF pr = NoProject
        THEN [err |-> "TypeError", models |-> ms, deletes |-> <<>>]
        ELSE ModelExistsLoop(Visits(ProjectModels(ms, ps, pr.id, collapse)), 1,
                 name, force, [err |-> "ok", models |-> ms, deletes |-> <<>>])

\* The end of pull_viya_model: extract <model>.zip in place, then unlink
\* every *.zip of the directory.
Unpack(fs, path) ==
    LET dir == fs.modelDirs[path]
        zFile == dir[ZipName(path[2])]
    IN  SetDir(fs, path, UnlinkZips(ExtractAll(zFile, dir)))

\* The name branch of pull_viya_model searches project_models with the loop
\* variable "model", which hides the argument "model": a list member is
\* compared with itself (a RestObj never equals its name), and for a single
\* RestObj the loop runs over its keys and compares the object's name with
\* each key. The result is the ids get_zipped_model is called with.
NameSearch(response) ==
    IF response.single
    THEN SelectSeq([k \in 1..Len(RestObjKeys) |->
                       IF response.items[1].name = RestObjKeys[k]
                       THEN response.items[1].id ELSE NONE],
                   LAMBDA id : id # NONE)
    ELSE <<>>

\* get_zipped_model for the model of that id, then the unpacking.
FetchAndUnpack(ms, fs, model_id) ==
    LET gz == GetZippedModel(ms, fs, model_id)
    IN  IF gz.err # "ok"
        THEN [err |-> gz.err, fs |-> gz.fs, dir |-> NoDir, pulled |-> <<>>]
        ELSE [err |-> "ok", fs |-> Unpack(gz.fs, gz.dir), dir |-> gz.dir,
              pulled |-> <<model_id>>]

\* pull_viya_model(model, git_path, project)
PullViyaModel(ms, ps, fs, model, project, collapse) ==
    IF IsUUID(model)
    THEN IF GetModel(ms, model) = NoModel
         THEN [err |-> "AttributeError", fs |-> fs, dir |-> NoDir, pulled |-> <<>>]
         ELSE FetchAndUnpack(ms, fs, model)
    ELSE LET project_response == GetProject(ps, project)
         IN  IF project_response = NoProject
             THEN [err |-> "SystemError", fs |-> fs, dir |-> NoDir, pulled |-> <<>>]
             ELSE LET found == NameSearch(ProjectModels(ms, ps, project_response.id,
                                                        collapse))
                  IN  IF found = <<>>
                      THEN [err |-> "UnboundLocalError", fs |-> fs, dir |-> NoDir,
                            pulled |-> <<>>]
                      ELSE FetchAndUnpack(ms, fs, found[1])

\* The loop of pull_mm_project over a list of models: make the model's
\* directory if it is missing, then pull_viya_model(m_id, git_path).
RECURSIVE PullEach(_, _, _, _, _)
PullEach(ms, ps, items, i, acc) ==
    IF i > Len(items) \/ acc.err # "ok" THEN acc
    ELSE LET model_path == <<items[i].projectName, items[i].name>>
             made == IF Exists(acc.fs, model_path) THEN acc.fs
                     ELSE Mkdir(acc.fs, model_path)
             pull == PullViyaModel(ms, ps, made, items[i].id, NONE, FALSE)
         IN  PullEach(ms, ps, items, i + 1,
                 [err |-> pull.err, fs |-> pull.fs,
                  pulled |-> acc.pulled \o pull.pulled])

\* Faulty variant of EnsureProjectDir: the directory is not made.
EnsureProjectDirSkipped(fs, project_name) == fs

\* if not project_path.exists(): Path(project_path).mkdir(...)
EnsureProjectDir(fs, project_name) ==
    IF Exists(fs, <<project_name>>) THEN fs ELSE Mkdir(fs, <<project_name>>)

\* pull_mm_project(git_path, project)
PullMMProject(ms, ps, fs, project, collapse) ==
    LET pe == ProjectExists(ps, GetProject(ps, project), project)
        made == EnsureProjectDir(fs, pe.project.name)
        model_response == ProjectModels(ms, pe.projects, pe.project.id, collapse)
    IN  IF pe.err # "ok"
        THEN [err |-> pe.err, projects |-> ps, fs |-> fs, pulled |-> <<>>,
              project |-> NoProject, single |-> FALSE]
        ELSE IF model_response.items = <<>>
        THEN [err |-> "FileNotFoundError", projects |-> pe.projects, fs |-> made,
              pulled |-> <<>>, project |-> pe.project, single |-> FALSE]
        ELSE IF model_response.single
        \* "for model in model_response" runs over the keys: a str has no .name
        THEN [err |-> "AttributeError", projects |-> pe.projects, fs |-> made,
              pulled |-> <<>>, project |-> pe.project, single |-> TRUE]
        ELSE LET each == PullEach(ms, pe.projects, model_response.items, 1,
                             [err |-> "ok", fs |-> made, pulled |-> <<>>])
             IN  [err |-> each.err, projects |-> pe.projects, fs |-> each.fs,
                  pulled |-> each.pulled, project |-> pe.project, single |-> FALSE]

\* The packing of push_git_model: unlink the directory's *.zip, archive what
\* is left under the base names, as <model_dir.name>.zip in the directory.
PackModelDir(fs, path) ==
    LET kept == UnlinkZips(fs.modelDirs[path])
    IN  WriteFile(SetDir(fs, path, kept), path, ZipName(path[2]), ZipWrite(kept))

\* Faulty variant of PushGitModel: the archive is uploaded before the models
\* of the name are deleted, so that a failed upload deletes nothing.
PushGitModelUploadsFirst(ms, ps, fs, id, project_name, model_name, collapse, uploaded) ==
    LET model_dir == <<project_name, model_name>>
    IN  IF ~Exists(fs, model_dir)
        THEN [err |-> "FileNotFoundError", models |-> ms, projects |-> ps, fs |-> fs,
              deletes |-> <<>>, imported |-> FALSE]
        ELSE LET packed == PackModelDir(fs, model_dir)
                 zip_io_file == packed.modelDirs[model_dir][ZipName(model_name)]
                 pe == ProjectExists(ps, GetProject(ps, project_name), project_name)
                 me == ModelExists(ms, pe.projects, pe.project.name, model_name,
                                   TRUE, collapse)
             IN  IF pe.err # "ok"
                 THEN [err |-> pe.err, models |-> ms, projects |-> ps, fs |-> packed,
                       deletes |-> <<>>, imported |-> FALSE]
                 ELSE IF ~uploaded
                 THEN [err |-> "HTTPError", models |-> ms, projects |-> pe.projects,
                       fs |-> packed, deletes |-> <<>>, imported |-> FALSE]
                 ELSE [err |-> me.err,
                       models |-> me.models \cup
                           {ImportedModel(id, model_name, pe.project.name, zip_io_file)},
                       projects |-> pe.projects, fs |-> packed,
                       deletes |-> me.deletes, imported |-> TRUE]

\* push_git_model(git_path, model_name, project_name), and the same call with
\* the model directory alone, whose names are those of the directory and of
\* its parent. uploaded says whether mr.import_model_from_zip succeeds.
PushGitModel(ms, ps, fs, id, project_name, model_name, collapse, uploaded) ==
    LET model_dir == <<project_name, model_name>>
    IN  IF ~Exists(fs, model_dir)
        THEN [err |-> "FileNotFoundError", models |-> ms, projects |-> ps, fs |-> fs,
              deletes |-> <<>>, imported |-> FALSE]
        ELSE LET packed == PackModelDir(fs, model_dir)
                 zip_io_file == packed.modelDirs[model_dir][ZipName(model_name)]
                 pe == ProjectExists(ps, GetProject(ps, project_name), project_name)
                 me == ModelExists(ms, pe.projects, pe.project.name, model_name,
                                   TRUE, collapse)
             IN  IF pe.err # "ok"
                 THEN [err |-> pe.err, models |-> ms, projects |-> ps, fs |-> packed,
                       deletes |-> <<>>, imported |-> FALSE]
                 ELSE IF me.err # "ok"
                 THEN [err |-> me.err, models |-> me.models, projects |-> pe.projects,
                       fs |-> packed, deletes |-> me.deletes, imported |-> FALSE]
                 ELSE IF ~uploaded
                 THEN [err |-> "HTTPError", models |-> me.models,
                       projects |-> pe.projects, fs |-> packed,
                       deletes |-> me.deletes, imported |-> FALSE]
                 ELSE [err |-> "ok",
                       models |-> me.models \cup
                           {ImportedModel(id, model_name, pe.project.name, zip_io_file)},
                       projects |-> pe.projects, fs |-> packed,
                       deletes |-> me.deletes, imported |-> TRUE]

(***************************************************************************)
(* The state machine                                                       *)
(***************************************************************************)
\* What is kept of a call: the function, how it ended ("ok" or the exception
\* raised), the model directory it worked on, the ids it passed to
\* mr.delete_model, the ids of the models it extracted, and the names of the
\* remote projects it created; fresh says that the model directory of a pull
\* was missing or empty when the call began.
Call(op, result, dir, deletes, pulled, created, fresh) ==
    [op |-> op, result |-> result, dir |-> dir, deletes |-> deletes,
     pulled |-> pulled, created |-> created, fresh |-> fresh]

\* The files of a directory as the history keeps them.
Held(dir) == [f \in DOMAIN dir |-> IF IsZip(f) THEN Data("archive") ELSE dir[f]]

\* The history of the models that are left.
Forget(hist, ms) == [i \in {j \in DOMAIN hist : \E mo \in ms : mo.id = j} |-> hist[i]]

IsFresh(md, dir) == dir \notin DOMAIN md \/ md[dir] = EmptyDir

\* No call is under way: the caller has seen the result of the last one.
Idle == Call("idle", "ok", NoDir, <<>>, <<>>, {}, FALSE)

Names(ps) == {p.name : p \in ps}

Files1(name, c) == [f \in {name} |-> Data(c)]

Files2(c, z) == [f \in {"a.txt", "b.zip"} |-> IF f = "a.txt" THEN Data(c) ELSE Data(z)]

\* Models the repository may hold at the start: two of one name, and a
\* third whose archive holds a file named *.zip.
InitialModels ==
    {[id |-> "u1", name |-> "m", projectName |-> "A", files |-> Files1("a.txt", "c1")],
     [id |-> "u2", name |-> "name", projectName |-> "A", files |-> Files2("c2", "c1")],
     [id |-> "u3", name |-> "m", projectName |-> "A", files |-> Files1("c.txt", "c1")]}

Init ==
    /\ projects = {CreateProject("A")}
    /\ models \in {ms \in SUBSET InitialModels :
                      ms = {} \/ \E mo \in ms : mo.id \in {"u1", "u2"}}
    /\ nextId = 1
    /\ projDirs = {}
    /\ modelDirs = [d \in {} |-> EmptyDir]
    /\ pushedFrom = [i \in {} |-> EmptyDir]
    /\ last = Idle

\* The single response shape is seen only when the project has one model.
Single(ms, ps, project, collapse) ==
    /\ GetProject(ps, project) # NoProject
    /\ ProjectModels(ms, ps, GetProject(ps, project).id, collapse).single

CallPullViyaModel(model, project, collapse) ==
    LET r == PullViyaModel(models, projects, Fs(projDirs, modelDirs), model, project,
                           collapse)
    IN  /\ last = Idle
        /\ IsUUID(model) => project = NONE /\ ~collapse
        /\ collapse => Single(models, projects, project, collapse)
        /\ projDirs' = r.fs.projDirs
        /\ modelDirs' = r.fs.modelDirs
        /\ last' = Call("pull_viya_model", r.err, r.dir, <<>>, r.pulled, {},
                        r.err = "ok" /\ IsFresh(modelDirs, r.dir))
        /\ UNCHANGED <<projects, models, nextId, pushedFrom>>

CallPushGitModel(project_name, model_name, collapse, uploaded) ==
    LET before == IF <<project_name, model_name>> \in DOMAIN modelDirs
                  THEN modelDirs[<<project_name, model_name>>] ELSE EmptyDir
        r == PushGitModel(models, projects, Fs(projDirs, modelDirs), ModelId(nextId),
                          project_name, model_name, collapse, uploaded)
    IN  /\ last = Idle
        /\ nextId <= MaxImports
        /\ collapse => Single(models, projects, project_name, collapse)
        /\ projects' = r.projects
        /\ models' = r.models
        /\ nextId' = IF r.imported THEN nextId + 1 ELSE nextId
        /\ projDirs' = r.fs.projDirs
        /\ modelDirs' = r.fs.modelDirs
        /\ pushedFrom' = Forget([i \in DOMAIN pushedFrom \cup {ModelId(nextId)} |->
                                     IF i = ModelId(nextId) THEN Held(before)
                                     ELSE pushedFrom[i]], r.models)
        /\ last' = Call("push_git_model", r.err, <<project_name, model_name>>,
                        r.deletes, <<>>, Names(r.projects) \ Names(projects), FALSE)

CallPullMMProject(project, collapse) ==
    LET r == PullMMProject(models, projects, Fs(projDirs, modelDirs), project, collapse)
    IN  /\ last = Idle
        /\ collapse => r.single
        /\ projects' = r.projects
        /\ projDirs' = r.fs.projDirs
        /\ modelDirs' = r.fs.modelDirs
        /\ last' = Call("pull_mm_project", r.err, NoDir, <<>>, r.pulled,
                        Names(r.projects) \ Names(projects), FALSE)
        /\ UNCHANGED <<models, nextId, pushedFrom>>

CallModelExists(project, name, force, collapse) ==
    LET r == ModelExists(models, projects, project, name, force, collapse)
    IN  /\ last = Idle
        /\ collapse => Single(models, projects, project, collapse)
        /\ models' = r.models
        /\ pushedFrom' = Forget(pushedFrom, r.models)
        /\ last' = Call("model_exists", r.err, NoDir, r.deletes, <<>>, {}, FALSE)
        /\ UNCHANGED <<projects, nextId, projDirs, modelDirs>>

CallProjectExists(project) ==
    LET r == ProjectExists(projects, GetProject(projects, project), project)
    IN  /\ last = Idle
        /\ projects' = r.projects
        /\ last' = Call("project_exists", r.err, NoDir, <<>>, <<>>,
                        Names(r.projects) \ Names(projects), FALSE)
        /\ UNCHANGED <<models, nextId, projDirs, modelDirs, pushedFrom>>

\* The owner of the working copy edits it between calls.
UserWrite(w) ==
    LET path == <<w[1], w[2]>>
        fs == WriteFile(Mkdir(Fs(projDirs, modelDirs), path), path, w[3], Data(w[4]))
    IN  /\ last = Idle
        /\ projDirs' = fs.projDirs
        /\ modelDirs' = fs.modelDirs
        /\ UNCHANGED <<projects, models, nextId, pushedFrom, last>>

UserRemoveModelDir(p, m) ==
    /\ last = Idle
    /\ <<p, m>> \in DOMAIN modelDirs
    /\ modelDirs' = [d \in DOMAIN modelDirs \ {<<p, m>>} |-> modelDirs[d]]
    /\ UNCHANGED <<projects, models, nextId, projDirs, pushedFrom, last>>

\* The call returns: the caller sees how it ended.
Return ==
    /\ last # Idle
    /\ last' = Idle
    /\ UNCHANGED <<projects, models, nextId, projDirs, modelDirs, pushedFrom>>

Next ==
    \/ \E model \in ModelRefs, project \in ProjectRefs \cup {NONE}, collapse \in BOOLEAN :
           CallPullViyaModel(model, project, collapse)
    \/ \E p \in ProjectNames, m \in ModelNames, collapse \in BOOLEAN, uploaded \in BOOLEAN :
           CallPushGitModel(p, m, collapse, uploaded)
    \/ \E project \in ProjectRefs, collapse \in BOOLEAN :
           CallPullMMProject(project, collapse)
    \/ \E project \in ProjectNames, name \in ModelNames, force \in BOOLEAN,
          collapse \in BOOLEAN :
           CallModelExists(project, name, force, collapse)
    \/ \E project \in ProjectRefs : CallProjectExists(project)
    \/ \E w \in UserWrites : UserWrite(w)
    \/ \E p \in ProjectNames, m \in ModelNames : UserRemoveModelDir(p, m)
    \/ Return

Spec == Init /\ [][Next]_vars

(***************************************************************************)
(* Claims                                                                  *)
(***************************************************************************)
Range(q) == {q[i] : i \in 1..Len(q)}

ModelsNamed(ms, project_name, name) ==
    {mo \in ms : mo.projectName = project_name /\ mo.name = name}

\* The files of directory dir that a call which extracted the models
\* "pulled" has written from their archives.
Extracted(dir, f, pulled) ==
    \E i \in 1..Len(pulled) :
        LET mo == GetModel(models, pulled[i])
        IN  <<mo.projectName, mo.name>> = dir /\ f \in DOMAIN mo.files

SyncOps == {"pull_viya_model", "push_git_model", "pull_mm_project"}

\* C1: after a completed pull_viya_model or push_git_model no *.zip file is
\* left in the model directory the call worked on.
C1_NoArchiveLeft ==
    (last.op \in {"pull_viya_model", "push_git_model"} /\ last.result = "ok")
        => \A f \in DOMAIN modelDirs[last.dir] : ~IsZip(f)

\* C2: pull_viya_model with a model name and a project that holds a model of
\* that name finds that model, and extracts its files into
\* <git_path>/<project_name>/<model_name>/.
C2_PullByName ==
    [][\A model \in ModelNames, project \in ProjectRefs, collapse \in BOOLEAN :
          (/\ last'.op = "pull_viya_model"
           /\ CallPullViyaModel(model, project, collapse)
           /\ ModelsNamed(models, GetProject(projects, project).name, model) # {})
          => /\ last'.result = "ok"
             /\ \E mo \in ModelsNamed(models, GetProject(projects, project).name, model) :
                   /\ last'.pulled = <<mo.id>>
                   /\ last'.dir = <<mo.projectName, mo.name>>
                   /\ \A f \in DOMAIN mo.files :
                         ~IsZip(f) => /\ f \in DOMAIN modelDirs'[last'.dir]
                                      /\ modelDirs'[last'.dir][f] = mo.files[f]]_vars

\* C3: a completed push of a model whose name a remote model of the project
\* already has leaves exactly one remote model of that name in the project;
\* model_exists with force = false and a name that exists ends in the
\* conflict error (ValueError), calls no delete_model and leaves the remote
\* models as they were.
C3_ForceOverwrite ==
    [][/\ \A p \in ProjectNames, m \in ModelNames, collapse \in BOOLEAN, up \in BOOLEAN :
             (/\ last'.op = "push_git_model"
              /\ CallPushGitModel(p, m, collapse, up)
              /\ last'.result = "ok"
              /\ ModelsNamed(models, p, m) # {})
             => Cardinality(ModelsNamed(models', p, m)) = 1
       /\ \A p \in ProjectNames, name \in ModelNames, collapse \in BOOLEAN :
             (/\ last'.op = "model_exists"
              /\ CallModelExists(p, name, FALSE, collapse)
              /\ ModelsNamed(models, p, name) # {})
             => /\ last'.result = "ValueError"
                /\ last'.deletes = <<>>
                /\ models' = models]_vars

\* A push has replaced the remote models of its name.
C3_Witness ==
    /\ last.op = "push_git_model"
    /\ last.result = "ok"
    /\ last.deletes # <<>>
    /\ Cardinality(ModelsNamed(models, last.dir[1], last.dir[2])) = 1

\* C4 as stated: a pull or push deletes no local file except an archive it
\* created itself (<model_name>.zip): every other file of a model directory,
\* a user's *.zip included, that the call does not overwrite from a pulled
\* archive is still there with its content.
C4_OnlyOwnArchivesDeleted ==
    [][last'.op \in SyncOps =>
          /\ projDirs \subseteq projDirs'
          /\ \A d \in DOMAIN modelDirs :
                /\ d \in DOMAIN modelDirs'
                /\ \A f \in DOMAIN modelDirs[d] :
                      (f # ZipName(d[2]) /\ ~Extracted(d, f, last'.pulled))
                      => /\ f \in DOMAIN modelDirs'[d]
                         /\ modelDirs'[d][f] = modelDirs[d][f]]_vars

\* C4 (amended): a pull or push removes no directory, and deletes or changes
\* no file whose name does not end in .zip, except that a pull overwrites a
\* file with the entry of that name of the archive it extracts.
C4_OnlyZipsDeleted ==
    [][last'.op \in SyncOps =>
          /\ projDirs \subseteq projDirs'
          /\ \A d \in DOMAIN modelDirs :
                /\ d \in DOMAIN modelDirs'
                /\ \A f \in DOMAIN modelDirs[d] :
                      (~IsZip(f) /\ ~Extracted(d, f, last'.pulled))
                      => /\ f \in DOMAIN modelDirs'[d]
                         /\ modelDirs'[d][f] = modelDirs[d][f]]_vars

\* A pull has extracted into a directory that holds a file which is no
\* entry of the archive.
C4_Witness ==
    /\ last.op = "pull_viya_model"
    /\ last.result = "ok"
    /\ ~last.fresh
    /\ \E f \in DOMAIN modelDirs[last.dir] : ~Extracted(last.dir, f, last.pulled)

\* C5: project_exists after a lookup that found nothing creates exactly one
\* remote project of the given name and returns it when the reference is a
\* plain name, and fails (SystemError) creating nothing when it parses as a
\* UUID; after a lookup that found the project it returns that project and
\* creates nothing.
C5_ProjectAutoCreation ==
    [][\A project \in ProjectRefs :
          (last'.op = "project_exists" /\ CallProjectExists(project)) =>
              LET response == GetProject(projects, project)
                  returned == ProjectExists(projects, response, project).project
              IN  /\ (response = NoProject /\ ~IsUUID(project))
                        => /\ last'.result = "ok"
                           /\ projects \subseteq projects'
                           /\ Cardinality(projects' \ projects) = 1
                           /\ \A q \in projects' \ projects :
                                 q.name = project /\ returned = q
                  /\ (response = NoProject /\ IsUUID(project))
                        => /\ last'.result = "SystemError"
                           /\ projects' = projects
                  /\ response # NoProject
                        => /\ last'.result = "ok"
                           /\ projects' = projects
                           /\ returned = response]_vars

\* project_exists has created a remote project.
C5_Witness ==
    /\ last.op = "project_exists"
    /\ last.result = "ok"
    /\ last.created # {}
    /\ last.created \subseteq Names(projects)

\* pull_viya_model cannot resolve its arguments: a UUID of no model, a name
\* without a project that resolves, or a name no model of the project has.
Unresolvable(model, project) ==
    IF IsUUID(model)
    THEN GetModel(models, model) = NoModel
    ELSE \/ GetProject(projects, project) = NoProject
         \/ ModelsNamed(models, GetProject(projects, project).name, model) = {}

\* C6: pull_viya_model fails whenever the model or project cannot be
\* resolved, or a bare name comes without a project, and then extracts
\* nothing.
C6_PullFailureModes ==
    [][\A model \in ModelRefs, project \in ProjectRefs \cup {NONE}, collapse \in BOOLEAN :
          (/\ last'.op = "pull_viya_model"
           /\ CallPullViyaModel(model, project, collapse)
           /\ Unresolvable(model, project))
          => /\ last'.result # "ok"
             /\ last'.pulled = <<>>
             /\ modelDirs' = modelDirs]_vars

BulkProject(project) == ProjectExists(projects, GetProject(projects, project), project)

\* C8: pull_mm_project on a project with one or more models completes, and
\* then every model of the project has its directory, has been pulled and
\* has its files there.
C8_BulkPull ==
    [][\A project \in ProjectRefs, collapse \in BOOLEAN :
          (/\ last'.op = "pull_mm_project"
           /\ CallPullMMProject(project, collapse)
           /\ BulkProject(project).err = "ok"
           /\ \E mo \in models : mo.projectName = BulkProject(project).project.name)
          => /\ last'.result = "ok"
             /\ \A mo \in models :
                   mo.projectName = BulkProject(project).project.name
                   => /\ <<mo.projectName, mo.name>> \in DOMAIN modelDirs'
                      /\ mo.id \in Range(last'.pulled)
                      /\ \A f \in DOMAIN mo.files :
                            ~IsZip(f) => f \in DOMAIN modelDirs'[<<mo.projectName, mo.name>>]
      ]_vars

\* C9: pull_mm_project on a project without models fails with
\* FileNotFoundError; the project's directory exists then, and no model
\* directory has been made.
C9_BulkPullEmptyProject ==
    [][\A project \in ProjectRefs, collapse \in BOOLEAN :
          (/\ last'.op = "pull_mm_project"
           /\ CallPullMMProject(project, collapse)
           /\ BulkProject(project).err = "ok"
           /\ \A mo \in models : mo.projectName # BulkProject(project).project.name)
          => /\ last'.result = "FileNotFoundError"
             /\ BulkProject(project).project.name \in projDirs'
             /\ modelDirs' = modelDirs]_vars

\* pull_mm_project has failed on a project without models, having made the
\* project's directory.
C9_Witness ==
    /\ last.op = "pull_mm_project"
    /\ last.result = "FileNotFoundError"
    /\ projDirs # {}
    /\ modelDirs = [d \in {} |-> EmptyDir]

\* C10: for a project with one model, model_exists does the same whether the
\* listing is a list or the model itself: the same outcome and the same
\* delete_model calls, one for each model of the name when force is true.
C10_ShapeIndependence ==
    \A p \in Names(projects), name \in ModelNames, force \in BOOLEAN :
        /\ ModelExists(models, projects, p, name, force, TRUE)
               = ModelExists(models, projects, p, name, force, FALSE)
        /\ force => Len(ModelExists(models, projects, p, name, force, TRUE).deletes)
                        = Cardinality(ModelsNamed(models, p, name))

\* C11: push_git_model resolves the project, then deletes the remote models
\* of the name, and only then uploads. A push of an existing model directory
\* whose upload fails ends with the upload's error; the project is resolved
\* (created when the name was unknown); exactly the models of that name in
\* that project have been deleted, each asked for at least once; nothing is
\* restored or imported, so the project holds no model of that name.
C11_NonAtomicOverwrite ==
    [][\A p \in ProjectNames, m \in ModelNames, collapse \in BOOLEAN :
          (/\ last'.op = "push_git_model"
           /\ CallPushGitModel(p, m, collapse, FALSE)
           /\ <<p, m>> \in DOMAIN modelDirs)
          => /\ last'.result = "HTTPError"
             /\ p \in Names(projects')
             /\ Range(last'.deletes) = {mo.id : mo \in ModelsNamed(models, p, m)}
             /\ models' = models \ ModelsNamed(models, p, m)
             /\ ModelsNamed(models', p, m) = {}
             /\ nextId' = nextId]_vars

\* A push whose upload failed after it had deleted the models of its name.
C11_Witness ==
    /\ last.op = "push_git_model"
    /\ last.result = "HTTPError"
    /\ last.deletes # <<>>
    /\ ModelsNamed(models, last.dir[1], last.dir[2]) = {}

====
